---- MODULE Spec2Model ----
(***************************************************************************)
(* WebGIS Populasi (Flask + Folium), src/app.py.                           *)
(*                                                                         *)
(* The program loads static/data_populasi.csv into the table df at import  *)
(* time, validates and coerces its columns, builds the dropdown list       *)
(* NAMES, and then serves "/" : every request filters a copy of df by up   *)
(* to three form fields, builds a map from the filtered rows and renders   *)
(* the page.                                                               *)
(*                                                                         *)
(* Text is a sequence of one-character strings, so that case folding,      *)
(* integer parsing and pattern search are computed character by character. *)
(* A numeric cell is a record [k, v]: k = "num" (finite, value v), "nan"   *)
(* (missing), "inf" (positive infinity) or, in the raw file only, "text".  *)
(* A text cell is [k, s]: k = "str" with characters s, or k = "na".        *)
(***************************************************************************)
EXTENDS Integers, Sequences, FiniteSets

VARIABLES
    csv,        \* the file static/data_populasi.csv: [cols, rows]
    astypeNan,  \* the pandas build: TRUE when Series.astype(str) turns NaN into "nan"
    phase,      \* "boot" | "serving" | "failed"
    loadError,  \* the exception that ended the import, or NoError
    df,         \* the module-level table
    NAMES,      \* the module-level dropdown list
    served,     \* requests handled so far: 0, 1 or 2 (2 stands for two or more)
    req,        \* the last request
    resp        \* what home() did with it

vars == <<csv, astypeNan, phase, loadError, df, NAMES, served, req, resp>>

\* The largest number of data rows of the CSV file.
MaxRows == 2

(***************************************************************************)
(* Characters and text                                                     *)
(***************************************************************************)

\* str.lower / str.casefold / re.IGNORECASE on one character.
LowerChar(c) ==
    CASE c = "A" -> "a"
      [] c = "B" -> "b"
      [] c = "L" -> "l"
      [] c = "N" -> "n"
      [] OTHER -> c

\* str.lower() of a column name (df.columns.str.lower()).
StrLower(s) == [i \in 1..Len(s) |-> LowerChar(s[i])]

\* str.casefold() of a text.
CaseFold(s) == [i \in 1..Len(s) |-> LowerChar(s[i])]

\* The code point of a character: the order sorted() uses.
Ord(c) ==
    CASE c = " " -> 32
      [] c = "(" -> 40
      [] c = "." -> 46
      [] c = "A" -> 65
      [] c = "B" -> 66
      [] c = "N" -> 78
      [] c = "a" -> 97
      [] c = "b" -> 98
      [] c = "n" -> 110
      [] OTHER -> 120

\* s < t for Python strings: the first differing code point decides, a proper
\* prefix is smaller.
StrLess(s, t) ==
    \E i \in 1..(Len(t)) :
        /\ \A j \in 1..(i - 1) : j <= Len(s) /\ s[j] = t[j]
        /\ i - 1 <= Len(s)
        /\ \/ i = Len(s) + 1
           \/ i <= Len(s) /\ Ord(s[i]) < Ord(t[i])

\* sorted(S) for a set of texts.
SortedList(S) ==
    CHOOSE q \in [1..Cardinality(S) -> S] :
        \A i, j \in 1..Cardinality(S) : i < j => StrLess(q[i], q[j])

(***************************************************************************)
(* Cells                                                                   *)
(***************************************************************************)

NaN == [k |-> "nan", v |-> 0]
Inf == [k |-> "inf", v |-> 0]
Junk == [k |-> "text", v |-> 0]
Num(n) == [k |-> "num", v |-> n]

NA == [k |-> "na", s |-> <<>>]
Str(s) == [k |-> "str", s |-> s]

\* pd.notna of a numeric cell: infinity is not missing.
NotNa(x) == x.k # "nan"

\* pd.to_numeric(..., errors="coerce") on one cell.
ToNumeric(x) == IF x.k = "text" THEN NaN ELSE x

(***************************************************************************)
(* The CSV file                                                            *)
(***************************************************************************)

cNama == <<"n", "a", "m", "a">>
cLat == <<"l", "a", "t">>
cLon == <<"l", "o", "n">>
cPopulasi == <<"p", "o", "p", "u", "l", "a", "s", "i">>

required == {cNama, cLat, cLon, cPopulasi}

\* Headers a file may have besides the four columns alone: one more column,
\* one column in another letter case, one column absent, two absent.
OtherHeaders ==
    { required \cup {<<"i", "d">>},
      {<<"N", "a", "m", "a">>, cLat, cLon, cPopulasi},
      {cNama, <<"L", "A", "T">>, cLon, cPopulasi},
      {cNama, cLat, cLon},
      {cLat, cLon} }

\* Data rows a file may hold (the cells as read, before coercion).
RowPool ==
    { [nama |-> Str(<<"A", "b">>), lat |-> Num(-6), lon |-> Num(106), populasi |-> Num(5)],
      [nama |-> Str(<<"a", "b">>), lat |-> Junk,    lon |-> Num(108), populasi |-> Num(0)],
      [nama |-> NA,                lat |-> Num(-6), lon |-> NaN,      populasi |-> Num(5)],
      [nama |-> Str(<<"a">>),      lat |-> Num(-7), lon |-> Num(107), populasi |-> Junk],
      [nama |-> Str(<<"B">>),      lat |-> Num(-8), lon |-> Num(108), populasi |-> Inf] }

RowSeqs(n) == UNION { [1..m -> RowPool] : m \in 0..n }

\* The files: any rows under the four columns; under another header, at most
\* one row (the import reads the header before any cell).
CsvFiles ==
    { [cols |-> required, rows |-> r] : r \in RowSeqs(MaxRows) }
        \cup { [cols |-> h, rows |-> r] : h \in OtherHeaders, r \in RowSeqs(1) }

(***************************************************************************)
(* Import: read, validate, coerce (lines 24-38)                            *)
(***************************************************************************)

NoError == [type |-> "none", missing |-> {}]

\* required - set(df.columns.str.lower())
MissingColumns(cols) == required \ { StrLower(c) : c \in cols }

\* The columns the coercion (lines 33-35) and NAMES (line 38) index by their
\* exact name; indexing a column the table does not have raises KeyError.
IndexedColumns == {cLat, cLon, cPopulasi, cNama}

\* df after lines 25-35: one row per data row, pandas' index label kept in idx.
CoerceRows(rows) ==
    [i \in 1..Len(rows) |->
        [idx |-> i,
         nama |-> rows[i].nama,
         lat |-> ToNumeric(rows[i].lat),
         lon |-> ToNumeric(rows[i].lon),
         populasi |-> ToNumeric(rows[i].populasi)]]

\* sorted(df["nama"].dropna().astype(str).unique().tolist())
BuildNames(table) ==
    SortedList({ table[i].nama.s : i \in { j \in 1..Len(table) : table[j].nama.k = "str" } })

\* The outcome of the import for a file: the exception raised, or the table.
LoadResult(file) ==
    IF MissingColumns(file.cols) # {}
    THEN [error |-> [type |-> "ValueError", missing |-> MissingColumns(file.cols)],
          df |-> <<>>, NAMES |-> <<>>]
    ELSE IF ~(IndexedColumns \subseteq file.cols)
    THEN [error |-> [type |-> "KeyError", missing |-> IndexedColumns \ file.cols],
          df |-> <<>>, NAMES |-> <<>>]
    ELSE [error |-> NoError,
          df |-> CoerceRows(file.rows),
          NAMES |-> BuildNames(CoerceRows(file.rows))]

(***************************************************************************)
(* int(min_pop_str) (line 174)                                             *)
(***************************************************************************)

Digits == {"0", "1", "2", "3", "4", "5", "6", "7", "8", "9"}

DigitVal(c) ==
    CASE c = "0" -> 0 [] c = "1" -> 1 [] c = "2" -> 2 [] c = "3" -> 3
      [] c = "4" -> 4 [] c = "5" -> 5 [] c = "6" -> 6 [] c = "7" -> 7
      [] c = "8" -> 8 [] c = "9" -> 9

RECURSIVE DigitsValue(_)
DigitsValue(ds) ==
    IF ds = <<>> THEN 0
    ELSE DigitsValue(SubSeq(ds, 1, Len(ds) - 1)) * 10 + DigitVal(ds[Len(ds)])

\* The text without its leading and trailing blanks.
Strip(s) ==
    LET inked == { i \in 1..Len(s) : s[i] # " " } IN
    IF inked = {} THEN <<>>
    ELSE SubSeq(s, CHOOSE i \in inked : \A j \in inked : i <= j,
                   CHOOSE i \in inked : \A j \in inked : i >= j)

\* int(s) for a str: blanks around, an optional sign, then decimal digits;
\* anything else raises ValueError (ok = FALSE).
PyInt(s) ==
    LET body == Strip(s)
        signed == body # <<>> /\ body[1] \in {"-", "+"}
        ds == IF signed THEN Tail(body) ELSE body
    IN  IF ds # <<>> /\ \A i \in 1..Len(ds) : ds[i] \in Digits
        THEN [ok |-> TRUE,
              val |-> IF signed /\ body[1] = "-" THEN 0 - DigitsValue(ds) ELSE DigitsValue(ds)]
        ELSE [ok |-> FALSE, val |-> 0]

(***************************************************************************)
(* The three filters (lines 172-183)                                       *)
(***************************************************************************)

\* PopGe with > in place of >=.
PopGt(x, n) ==
    CASE x.k = "num" -> x.v > n
      [] x.k = "inf" -> TRUE
      [] OTHER -> FALSE

\* One element of dff["populasi"] >= min_pop: a comparison with NaN is False.
PopGe(x, n) ==
    CASE x.k = "num" -> x.v >= n
      [] x.k = "inf" -> TRUE
      [] OTHER -> FALSE

\* One element of dff["nama"].astype(str): a text stays; a missing value
\* becomes the text "nan" or stays missing, by the pandas build.
AsTypeStr(x, nanText) ==
    IF x.k = "na" THEN (IF nanText THEN Str(<<"n", "a", "n">>) ELSE NA) ELSE x

\* re.compile(pat): over this alphabet a pattern fails to compile exactly when
\* it opens a group it never closes.
ReCompiles(pat) == \A i \in 1..Len(pat) : pat[i] # "("

\* One pattern character against one text character under re.IGNORECASE:
\* "." matches any character, a letter matches itself in either case.
ReCharMatches(pc, c) == pc = "." \/ LowerChar(pc) = LowerChar(c)

\* pat.search(s) is not None, for a pattern that compiles.
ReSearch(pat, s) ==
    \E i \in 1..(Len(s) - Len(pat) + 1) :
        \A j \in 1..Len(pat) : ReCharMatches(pat[j], s[i + j - 1])

\* One element of .str.contains(keyword, case=False, na=False).
StrContains(x, pat) == IF x.k = "na" THEN FALSE ELSE ReSearch(pat, x.s)

\* One element of .str.casefold() == selected_name.casefold().
CaseFoldEq(x, name) == IF x.k = "na" THEN FALSE ELSE CaseFold(x.s) = CaseFold(name)

\* dff[mask]: the rows whose mask element is True, in order.
MinPopFilter(dff, n) ==
    LET Keep(r) == PopGe(r.populasi, n) IN SelectSeq(dff, Keep)

KeywordFilter(dff, keyword, nanText) ==
    LET Keep(r) == StrContains(AsTypeStr(r.nama, nanText), keyword) IN SelectSeq(dff, Keep)

NameFilter(dff, name, nanText) ==
    LET Keep(r) == CaseFoldEq(AsTypeStr(r.nama, nanText), name) IN SelectSeq(dff, Keep)

\* MinPopStep with an empty field read as 0 (int(min_pop_str or 0)).
MinPopStepDefaultZero(dff, min_pop_str) ==
    IF min_pop_str = <<>> THEN MinPopFilter(dff, 0)
    ELSE LET parsed == PyInt(min_pop_str) IN
         IF parsed.ok THEN MinPopFilter(dff, parsed.val) ELSE dff

\* Lines 172-177: the population step. A field that does not parse is passed over.
MinPopStep(dff, min_pop_str) ==
    IF min_pop_str = <<>> THEN dff
    ELSE LET parsed == PyInt(min_pop_str) IN
         IF parsed.ok THEN MinPopFilter(dff, parsed.val) ELSE dff

\* Lines 179-180: the keyword step; raised = TRUE when re.compile raised.
KeywordStep(dff, keyword, nanText) ==
    IF keyword = <<>> THEN [raised |-> FALSE, dff |-> dff]
    ELSE IF ~ReCompiles(keyword) THEN [raised |-> TRUE, dff |-> dff]
    ELSE [raised |-> FALSE, dff |-> KeywordFilter(dff, keyword, nanText)]

\* Lines 182-183: the exact-name step.
NameStep(dff, name, nanText) ==
    IF name = <<>> THEN dff ELSE NameFilter(dff, name, nanText)

\* The order home() applies the steps in.
FilterOrder == <<"min_pop", "keyword", "name">>

\* One step on the table so far; raised = TRUE when the step raised.
FilterStep(which, dff, fields, nanText) ==
    CASE which = "min_pop" -> [raised |-> FALSE, dff |-> MinPopStep(dff, fields.min_pop)]
      [] which = "keyword" -> KeywordStep(dff, fields.keyword, nanText)
      [] OTHER -> [raised |-> FALSE, dff |-> NameStep(dff, fields.name, nanText)]

\* The steps in the given order, each on the rows the one before kept; a step
\* that raises ends the run with the table as it was.
RECURSIVE RunFilters(_, _, _, _)
RunFilters(order, dff, fields, nanText) ==
    IF order = <<>> THEN [raised |-> FALSE, dff |-> dff]
    ELSE LET s == FilterStep(Head(order), dff, fields, nanText) IN
         IF s.raised THEN s ELSE RunFilters(Tail(order), s.dff, fields, nanText)

(***************************************************************************)
(* build_map (lines 129-159)                                               *)
(***************************************************************************)

\* A float that is a mean: the sum of the values over their number, or NaN.
Ratio(n, d) == [k |-> "num", num |-> n, den |-> d]
NanFloat == [k |-> "nan", num |-> 0, den |-> 1]

\* The fixed centre [-6.5, 107.0].
DefaultCenter == <<Ratio(-13, 2), Ratio(107, 1)>>

\* Series.mean(): missing values are skipped; the mean of none is NaN.
\* sum and n are the sum and the number of the values met so far. The lat and
\* lon cells of the files modelled here are finite or missing.
RECURSIVE MeanFrom(_, _, _)
MeanFrom(cells, sum, n) ==
    IF cells = <<>> THEN (IF n = 0 THEN NanFloat ELSE Ratio(sum, n))
    ELSE IF Head(cells).k = "num"
    THEN MeanFrom(Tail(cells), sum + Head(cells).v, n + 1)
    ELSE MeanFrom(Tail(cells), sum, n)

Mean(cells) == MeanFrom(cells, 0, 0)

LatColumn(dframe) == [i \in 1..Len(dframe) |-> dframe[i].lat]
LonColumn(dframe) == [i \in 1..Len(dframe) |-> dframe[i].lon]

AnyNotNa(cells) == \E i \in 1..Len(cells) : NotNa(cells[i])

\* MapCenter without the test of lon.
MapCenterLatOnly(dframe) ==
    IF Len(dframe) > 0 /\ AnyNotNa(LatColumn(dframe))
    THEN <<Mean(LatColumn(dframe)), Mean(LonColumn(dframe))>>
    ELSE DefaultCenter

\* Lines 131-134.
MapCenter(dframe) ==
    IF Len(dframe) > 0 /\ AnyNotNa(LatColumn(dframe)) /\ AnyNotNa(LonColumn(dframe))
    THEN <<Mean(LatColumn(dframe)), Mean(LonColumn(dframe))>>
    ELSE DefaultCenter

\* f"{row['nama']}": a missing name prints as nan.
FormatNama(x) == IF x.k = "na" THEN <<"n", "a", "n">> ELSE x.s

HasCoordinates(r) == NotNa(r.lat) /\ NotNa(r.lon)

\* dframe.dropna(subset=["lat", "lon"])
DropNaLatLon(dframe) == SelectSeq(dframe, HasCoordinates)

\* Lines 145-148: the popup of a row; int() of an infinite populasi raises
\* OverflowError.
PopupRaises(r) == NotNa(r.populasi) /\ r.populasi.k = "inf"

PopupText(r) ==
    IF NotNa(r.populasi)
    THEN [nama |-> FormatNama(r.nama), populasi |-> <<r.populasi.v>>]
    ELSE [nama |-> FormatNama(r.nama), populasi |-> <<>>]

\* The count raised only in the branch that shows a populasi.
CountIfPopulasi(count, r) == IF NotNa(r.populasi) THEN count + 1 ELSE count

\* count += 1 (line 154), once for each marker added.
CountAfterMarker(count, r) == count + 1

\* Lines 143-154: the loop over the rows that have coordinates.
RECURSIVE PlaceMarkers(_, _, _)
PlaceMarkers(rows, markers, count) ==
    IF rows = <<>> THEN [raised |-> FALSE, markers |-> markers, count |-> count]
    ELSE LET row == Head(rows) IN
         IF PopupRaises(row) THEN [raised |-> TRUE, markers |-> markers, count |-> count]
         ELSE PlaceMarkers(Tail(rows),
                           Append(markers, [idx |-> row.idx,
                                            location |-> <<row.lat, row.lon>>,
                                            popup |-> PopupText(row),
                                            tooltip |-> row.nama]),
                           CountAfterMarker(count, row))

\* build_map(dframe): the map (centre and markers) and result_count, or the
\* exception that ended it.
build_map(dframe) ==
    LET placed == PlaceMarkers(DropNaLatLon(dframe), <<>>, 0) IN
    [raised |-> placed.raised,
     center |-> MapCenter(dframe),
     markers |-> placed.markers,
     count |-> placed.count]

(***************************************************************************)
(* home (lines 164-195)                                                    *)
(***************************************************************************)

\* request.form.get(key, default); a form is a set of <<key, value>> pairs.
FormGet(form, key, default) ==
    IF \E p \in form : p[1] = key
    THEN (CHOOSE p \in form : p[1] = key)[2]
    ELSE default

NoPage == [min_pop |-> <<>>, keyword |-> <<>>, names |-> <<>>, selected_name |-> <<>>]
NoMap == [center |-> DefaultCenter, markers |-> <<>>]

\* What home() does with a form: the table it reached, and the page it
\* rendered or the exception that ended it.
home(table, names, form, nanText) ==
    LET fields == [min_pop |-> FormGet(form, "min_pop", <<>>),
                   keyword |-> FormGet(form, "keyword", <<>>),
                   name |-> FormGet(form, "name", <<>>)]
        filtered == RunFilters(FilterOrder, table, fields, nanText)
        built == build_map(filtered.dff)
    IN  IF filtered.raised
        THEN [outcome |-> "re.error", dff |-> filtered.dff, map |-> NoMap,
              result_count |-> 0, page |-> NoPage]
        ELSE IF built.raised
        THEN [outcome |-> "OverflowError", dff |-> filtered.dff, map |-> NoMap,
              result_count |-> 0, page |-> NoPage]
        ELSE [outcome |-> "rendered", dff |-> filtered.dff,
              map |-> [center |-> built.center, markers |-> built.markers],
              result_count |-> built.count,
              page |-> [min_pop |-> fields.min_pop, keyword |-> fields.keyword,
                        names |-> names, selected_name |-> fields.name]]

\* The filters applied to df itself, no copy taken.
DfFilteredInPlace(table, dff) == dff

\* dff = df.copy() (line 170): the filters rebind dff, the module's df stays.
DfAfterRequest(table, dff) == table

(***************************************************************************)
(* Inputs                                                                  *)
(***************************************************************************)

MinPopInputs ==
    { <<>>, <<"0">>, <<" ", "5">>, <<"-", "1">>, <<"x">> }

KeywordInputs ==
    { <<>>, <<"a", "B">>, <<".">>, <<"a", "(">> }

NameInputs ==
    { <<>>, <<"a", "b">>, <<"N", "a", "N">> }

NoRequest == [method |-> "none", form |-> {}]
NoResponse == [outcome |-> "none", dff |-> <<>>, map |-> NoMap, result_count |-> 0,
               page |-> NoPage]

(***************************************************************************)
(* The state machine                                                       *)
(***************************************************************************)

Init ==
    /\ csv \in CsvFiles
    /\ astypeNan \in BOOLEAN
    /\ phase = "boot"
    /\ loadError = NoError
    /\ df = <<>>
    /\ NAMES = <<>>
    /\ served = 0
    /\ req = NoRequest
    /\ resp = NoResponse

\* The import of the module: lines 25-38.
Load ==
    /\ phase = "boot"
    /\ LET r == LoadResult(csv) IN
        /\ loadError' = r.error
        /\ phase' = IF r.error = NoError THEN "serving" ELSE "failed"
        /\ df' = r.df
        /\ NAMES' = r.NAMES
    /\ UNCHANGED <<csv, astypeNan, served, req, resp>>

\* One request to "/" with the given form.
Serve(method, form) ==
    /\ phase = "serving"
    /\ LET r == home(df, NAMES, form, astypeNan) IN
        /\ resp' = r
        /\ df' = DfAfterRequest(df, r.dff)
    /\ req' = [method |-> method, form |-> form]
    /\ served' = IF served = 0 THEN 1 ELSE 2
    /\ UNCHANGED <<csv, astypeNan, phase, loadError, NAMES>>

\* GET /: no form fields.
HomeGet == Serve("GET", {})

\* POST /: the page's form, with its three fields.
HomePost ==
    \E m \in MinPopInputs, kw \in KeywordInputs, n \in NameInputs :
        Serve("POST", {<<"min_pop", m>>, <<"keyword", kw>>, <<"name", n>>})

Next == Load \/ HomeGet \/ HomePost

Spec == Init /\ [][Next]_vars

(***************************************************************************)
(* Properties                                                              *)
(***************************************************************************)

Handled == resp.outcome # "none"
ReqMinPop == FormGet(req.form, "min_pop", <<>>)
ReqKeyword == FormGet(req.form, "keyword", <<>>)
ReqName == FormGet(req.form, "name", <<>>)

\* The index labels of a table, and of the whole dataset.
Ids(table) == { table[i].idx : i \in 1..Len(table) }
AllIds == 1..Len(df)

\* The submitted min_pop texts that are integers, with the integer each denotes.
IntegerTexts == { <<<<"0">>, 0>>, <<<<" ", "5">>, 5>>, <<<<"-", "1">>, 0 - 1>> }

\* The populasi of row i is present and at least n.
PresentAtLeast(i, n) ==
    \/ df[i].populasi.k = "inf"
    \/ df[i].populasi.k = "num" /\ df[i].populasi.v >= n

\* C1: when min_pop denotes the integer n, no kept row lacks its populasi or
\* has one below n, and with the other two fields empty the kept rows are
\* exactly the rows whose populasi is present and >= n.
C1_MinPopFilter ==
    \A p \in IntegerTexts :
        (Handled /\ ReqMinPop = p[1]) =>
            /\ \A i \in Ids(resp.dff) : PresentAtLeast(i, p[2])
            /\ (ReqKeyword = <<>> /\ ReqName = <<>>) =>
                    Ids(resp.dff) = { i \in AllIds : PresentAtLeast(i, p[2]) }

\* A request with min_pop " 5" alone on a table holding a row it keeps, a row
\* below 5 or one with no populasi.
C1_Witness ==
    /\ Handled /\ ReqMinPop = <<" ", "5">> /\ ReqKeyword = <<>> /\ ReqName = <<>>
    /\ resp.dff # <<>>
    /\ \E i \in AllIds : df[i].populasi.k = "nan" /\ i \notin Ids(resp.dff)

\* text contains the keyword as literal text, letter case ignored.
LiteralContains(text, keyword) ==
    \E i \in 1..(Len(text) - Len(keyword) + 1) :
        \A j \in 1..Len(keyword) : LowerChar(text[i + j - 1]) = LowerChar(keyword[j])

\* C2: with a non-empty keyword alone, the kept rows are exactly the rows whose
\* nama is present and contains the keyword as literal text ignoring case.
C2_KeywordLiteral ==
    (Handled /\ ReqKeyword # <<>> /\ ReqMinPop = <<>> /\ ReqName = <<>>) =>
        /\ resp.outcome # "re.error"
        /\ Ids(resp.dff) =
              { i \in AllIds : df[i].nama.k = "str" /\ LiteralContains(df[i].nama.s, ReqKeyword) }

\* NAMES as a set.
NameEntries == { NAMES[i] : i \in 1..Len(NAMES) }

\* C3: with a non-empty name alone, the kept rows are exactly the rows whose
\* nama equals the name ignoring case, and an entry of NAMES keeps a row.
C3_ExactName ==
    (Handled /\ ReqName # <<>> /\ ReqMinPop = <<>> /\ ReqKeyword = <<>>) =>
        /\ Ids(resp.dff) =
              { i \in AllIds : df[i].nama.k = "str" /\ CaseFold(df[i].nama.s) = CaseFold(ReqName) }
        /\ ReqName \in NameEntries => resp.dff # <<>>

\* The request's fields, and the same with only one of them kept.
ReqFields == [min_pop |-> ReqMinPop, keyword |-> ReqKeyword, name |-> ReqName]
NoFields == [min_pop |-> <<>>, keyword |-> <<>>, name |-> <<>>]
Only(which) == [NoFields EXCEPT ![which] = ReqFields[which]]

\* The rows one filter keeps when applied alone to the whole dataset.
Alone(which) == Ids(RunFilters(<<which>>, df, Only(which), astypeNan).dff)

Orders ==
    { o \in [1..3 -> {"min_pop", "keyword", "name"}] : { o[i] : i \in 1..3 } = {"min_pop", "keyword", "name"} }

\* C4: whenever the filters run to their end, the filtered table is the
\* intersection of the three filters applied alone, a subset of the dataset,
\* the same in every order of the steps, and an empty field removes no row.
C4_Independent ==
    (Handled /\ resp.outcome # "re.error") =>
        /\ Ids(resp.dff) = Alone("min_pop") \cap Alone("keyword") \cap Alone("name")
        /\ Ids(resp.dff) \subseteq AllIds
        /\ \A o \in Orders : Ids(RunFilters(o, df, ReqFields, astypeNan).dff) = Ids(resp.dff)
        /\ \A w \in {"min_pop", "keyword", "name"} : ReqFields[w] = <<>> => Alone(w) = AllIds
        /\ req.method = "GET" => Ids(resp.dff) = AllIds

\* All three fields set: the result keeps a row, one filter alone keeps more
\* than the result, and another alone drops a row of the dataset.
C4_Witness ==
    /\ Handled /\ resp.outcome # "re.error"
    /\ ReqMinPop # <<>> /\ ReqKeyword # <<>> /\ ReqName # <<>>
    /\ resp.dff # <<>>
    /\ \E w \in {"min_pop", "keyword", "name"} : Alone(w) # Ids(resp.dff)
    /\ \E w \in {"min_pop", "keyword", "name"} : Alone(w) # AllIds

\* C5: a non-empty min_pop that is no integer leaves the table to the other
\* two filters alone, and the page is rendered with the text as submitted.
C5_BestEffortParse ==
    (Handled /\ ReqMinPop \in {<<"x">>}) =>
        /\ resp.outcome = "rendered"
        /\ resp.page.min_pop = ReqMinPop
        /\ Ids(resp.dff) = Alone("keyword") \cap Alone("name")

\* C6: every request ends with the rendered page.
C6_AlwaysRenders == Handled => resp.outcome = "rendered"

\* The rows of the filtered table that have both coordinates.
WithCoordinates == { i \in Ids(resp.dff) : df[i].lat.k # "nan" /\ df[i].lon.k # "nan" }

\* C7: result_count is the number of markers, the markers are the filtered
\* rows with both coordinates, one each, and a marker of a row with no
\* populasi shows the name only.
C7_ResultCount ==
    resp.outcome = "rendered" =>
        /\ resp.result_count = Len(resp.map.markers)
        /\ { resp.map.markers[j].idx : j \in 1..Len(resp.map.markers) } = WithCoordinates
        /\ Len(resp.map.markers) = Cardinality(WithCoordinates)
        /\ \A j \in 1..Len(resp.map.markers) :
              LET m == resp.map.markers[j] IN
              /\ df[m.idx].populasi.k = "nan" => m.popup.populasi = <<>>
              /\ df[m.idx].populasi.k = "num" => m.popup.populasi = <<df[m.idx].populasi.v>>
              /\ m.popup.nama = FormatNama(df[m.idx].nama)

\* A rendered page whose table holds a row without coordinates (not counted)
\* and a row with coordinates and no populasi (counted).
C7_Witness ==
    /\ resp.outcome = "rendered"
    /\ \E i \in Ids(resp.dff) : i \notin WithCoordinates
    /\ \E i \in WithCoordinates : df[i].populasi.k = "nan"
    /\ resp.result_count = 1

\* df and NAMES as the import left them.
Loaded == LoadResult(csv)

\* C8: df and NAMES stay as the import left them, and every response is the
\* one the same form gets from the table the import built.
C8_NoStateCarried ==
    phase = "serving" =>
        /\ df = Loaded.df
        /\ NAMES = Loaded.NAMES
        /\ Handled => resp = home(Loaded.df, Loaded.NAMES, req.form, astypeNan)
        /\ resp.outcome = "rendered" => resp.page.names = Loaded.NAMES

\* A request after an earlier one, filtering the table down.
C8_Witness ==
    /\ served = 2
    /\ resp.outcome = "rendered"
    /\ Len(resp.dff) < Len(df)
    /\ resp.result_count > 0

\* C9: a file lacking one of the four columns is rejected with ValueError
\* naming them, and a file that passes the validation has the four columns.
C9_StartupValidation ==
    phase # "boot" =>
        /\ ~(required \subseteq csv.cols) =>
              loadError = [type |-> "ValueError", missing |-> required \ csv.cols]
        /\ loadError.type # "ValueError" => phase = "serving" /\ required \subseteq csv.cols

RECURSIVE SumOver(_, _)
SumOver(S, c) ==
    IF S = {} THEN 0
    ELSE LET i == CHOOSE x \in S : TRUE IN
         (IF c = "lat" THEN df[i].lat.v ELSE df[i].lon.v) + SumOver(S \ {i}, c)

LatIds == { i \in Ids(resp.dff) : df[i].lat.k = "num" }
LonIds == { i \in Ids(resp.dff) : df[i].lon.k = "num" }

C10_WitnessDefault ==
    /\ resp.outcome = "rendered"
    /\ resp.dff # <<>> /\ LatIds # {} /\ LonIds = {}
    /\ resp.map.center = DefaultCenter

====
